---- MODULE Spec2Model ----
(***************************************************************************)
(* Model of apply_landlock_sandbox (src/internal/sandbox.rs): the ruleset  *)
(* builder, the filesystem and environment it consults, the Landlock       *)
(* layers the kernel holds for the process, and what the caller observes   *)
(* (the returned Result and the lines written to standard error).          *)
(*                                                                         *)
(* A path is the sequence of its components: <<>> is "/", <<"tmp">> is     *)
(* "/tmp".  A PathBeneath rule covers the path it names and everything     *)
(* below it.  The kernel keeps one layer per successful restrict_self and  *)
(* permits an access only if every layer that handles it has a rule        *)
(* granting it; the decision for a right on a path is taken on that path.  *)
(* A directory that exists can be opened (PathFd::new        *)
(* succeeds on it); a call into the kernel interface (create, add_rule,    *)
(* restrict_self) may be refused at any time.                              *)
(***************************************************************************)
EXTENDS Integers, Sequences, FiniteSets, TLC

\* ---------------------------------------------------------------- bounds
MaxCalls == 2
MaxRoots == 2

\* ------------------------------------------------------- access rights
\* ABI::V3
abi == 3

\* The filesystem rights of AccessFs, by the ABI that introduced them.
AccessFsAll(v) ==
    IF v <= 0 THEN {}
    ELSE {"Execute", "WriteFile", "ReadFile", "ReadDir", "RemoveFile", "MakeReg"}
         \cup (IF v >= 2 THEN {"Refer"} ELSE {})
         \cup (IF v >= 3 THEN {"Truncate"} ELSE {})

AccessFsRead(v) == AccessFsAll(v) \cap {"Execute", "ReadFile", "ReadDir"}

read_access == AccessFsRead(abi)

all_access == AccessFsAll(abi)

ExecRuleAccessAll == all_access

\* AccessFs::Execute
ExecRuleAccess == {"Execute"}

\* ---------------------------------------------------------------- paths
RootDir == <<>>

TmpDir == <<"tmp">>

Join(base, name) == Append(base, name)

ClaudeDir(h) == Join(h, ".claude")

Beneath(p, r) == Len(r) <= Len(p) /\ SubSeq(p, 1, Len(r)) = r

\* Directories every filesystem state holds, and those that may be missing.
AlwaysPresent == {RootDir, <<"etc">>, <<"home">>, <<"opt">>}

OptionalDirs == {TmpDir, <<"ws">>, <<"ws", ".claude">>, <<"home", ".claude">>}

Parent(p) == SubSeq(p, 1, Len(p) - 1)

FsStates ==
    {AlwaysPresent \cup s : s \in
        {t \in SUBSET OptionalDirs : \A p \in t : Parent(p) \in AlwaysPresent \cup t}}

\* The paths on which the kernel's decision is observed.
ProbePaths ==
    AlwaysPresent \cup OptionalDirs \cup
    {<<"etc", "passwd">>, <<"tmp", "x">>, <<"ws", "file.txt">>, <<"opt", "f">>,
     <<"home", "x">>, <<"home", ".claude", "s">>, <<"ws", ".claude", "s">>}

\* Values of the arguments and of the environment.
RootCandidates == {<<"ws">>, <<"opt">>}

RECURSIVE SeqsUpTo(_, _)
SeqsUpTo(S, n) ==
    IF n = 0 THEN {<<>>}
    ELSE LET shorter == SeqsUpTo(S, n - 1)
         IN  shorter \cup {Append(s, x) : s \in {t \in shorter : Len(t) = n - 1}, x \in S}

RootLists == SeqsUpTo(RootCandidates, MaxRoots)

\* std::env::var("HOME"): the empty set is Err, {h} is Ok(h).
HomeValues == {{}, {<<"home">>}, {<<"ws">>}}

\* ABI the running kernel implements; 0 is a kernel without Landlock.
KernelABIs == {0, 1, 3}

ProgramOrderCommitEarly ==
    <<"create", "read", "exec", "roots", "commit", "tmp", "home", "report">>

ProgramOrderCommitFirst ==
    <<"create", "commit", "read", "exec", "roots", "tmp", "home", "report">>

\* The statements of the function body, in order.
ProgramOrder ==
    <<"create", "read", "exec", "roots", "tmp", "home", "commit", "report">>

Successor(s) ==
    LET k == CHOOSE j \in 1..Len(ProgramOrder) : ProgramOrder[j] = s
    IN  ProgramOrder[k + 1]

\* ---------------------------------------------------------------- state
VARIABLES
    kernel_abi,       \* the running kernel's Landlock ABI
    HOME,             \* the HOME environment variable
    present,          \* the directories that exist
    pc,               \* position in apply_landlock_sandbox
    writable_roots,   \* the argument
    i,                \* index of the for loop
    ruleset,          \* the builder: handled rights and the rules added so far
    status,           \* status.ruleset of restrict_self
    result,           \* what the call returned
    stderr,           \* number of lines written to standard error
    layers,           \* the Landlock layers in force for the process
    state,            \* "Unrestricted" or "Restricted"
    calls,            \* number of calls made
    layers_at_entry,  \* layers when the current call began
    stderr_at_entry,  \* stderr when the current call began
    commits           \* restrict_self calls that succeeded in the current call

vars ==
    <<kernel_abi, HOME, present, pc, writable_roots, i, ruleset, status,
      result, stderr, layers, state, calls, layers_at_entry, stderr_at_entry, commits>>

NoRuleset == [handled |-> {}, rules |-> {}]

NoResult == [kind |-> "none", value |-> "none"]

Ok(v) == [kind |-> "ok", value |-> v]

Err(cause) == [kind |-> "err", value |-> cause]

\* ---------------------------------------------------------------- kernel
\* Whether the process may exercise right op on path p under the layers ls.
Permitted(ls, op, p) ==
    \A k \in 1..Len(ls) :
        op \in ls[k].handled =>
            \E r \in ls[k].rules : Beneath(p, r.path) /\ op \in r.access

\* landlock_add_rule: the rights of two rules on one path are united.
MergeRule(rules, path, access) ==
    LET old == {r \in rules : r.path = path}
        had == UNION {r.access : r \in old}
    IN  (rules \ old) \cup {[path |-> path, access |-> had \cup access]}

\* What a ruleset becomes on a kernel of ABI v: rights it does not know are dropped.
Enforce(rs, v) ==
    [handled |-> rs.handled \cap AccessFsAll(v),
     rules   |-> {[path |-> r.path, access |-> r.access \cap AccessFsAll(v)] :
                    r \in rs.rules}]

StackLayerReplace(ls, l) == <<l>>

StackLayer(ls, l) == Append(ls, l)

RulesetStatusOf(v) ==
    IF v <= 0 THEN "NotEnforced"
    ELSE IF v < abi THEN "PartiallyEnforced"
    ELSE "FullyEnforced"

\* ---------------------------------------------------------------- policy
UnopenablePathIsSkipped == FALSE

\* PathFd::new(..)? : an unopenable path ends the call.
UnopenablePathIsFatal == TRUE

HomeUnsetEndsCall == TRUE

\* if let Ok(home) = std::env::var("HOME") : Err falls through.
HomeUnsetIsFatal == FALSE

ClaudeMissingEndsCall == TRUE

\* if claude_dir.exists() : a missing directory falls through.
ClaudeMissingIsFatal == FALSE

WarnNever(st) == FALSE

WarnCondition(st) == st = "NotEnforced"

ReturnStatus(st) == st

ReturnValue(st) == "unit"

\* ---------------------------------------------------------------- actions
Init ==
    /\ kernel_abi \in KernelABIs
    /\ HOME \in HomeValues
    /\ present \in FsStates
    /\ pc = "idle"
    /\ writable_roots = <<>>
    /\ i = 1
    /\ ruleset = NoRuleset
    /\ status = "none"
    /\ result = NoResult
    /\ stderr = 0
    /\ layers = <<>>
    /\ state = "Unrestricted"
    /\ calls = 0
    /\ layers_at_entry = <<>>
    /\ stderr_at_entry = 0
    /\ commits = 0

\* The caller invokes apply_landlock_sandbox(writable_roots).
Call ==
    /\ pc = "idle"
    /\ calls < MaxCalls
    /\ writable_roots' \in RootLists
    /\ pc' = ProgramOrder[1]
    /\ i' = 1
    /\ ruleset' = NoRuleset
    /\ status' = "none"
    /\ result' = NoResult
    /\ calls' = calls + 1
    /\ layers_at_entry' = layers
    /\ stderr_at_entry' = stderr
    /\ commits' = 0
    /\ UNCHANGED <<kernel_abi, HOME, present, stderr, layers, state>>

\* The `?` operator: return the error to the caller.
Fail(cause) ==
    /\ pc' = "done"
    /\ result' = Err(cause)
    /\ UNCHANGED <<kernel_abi, HOME, present, writable_roots, i, ruleset, status,
                   stderr, layers, state, calls, layers_at_entry, stderr_at_entry,
                   commits>>

\* Go on to statement `next`, loop index `i_next`, with the builder as it is.
Skip(next, i_next) ==
    /\ pc' = next
    /\ i' = i_next
    /\ UNCHANGED <<kernel_abi, HOME, present, writable_roots, ruleset, status,
                   result, stderr, layers, state, calls, layers_at_entry,
                   stderr_at_entry, commits>>

\* ruleset = ruleset.add_rule(PathBeneath::new(PathFd::new(path)?, access))?
\* PathFd::new opens the path; add_rule may be refused by the kernel interface.
AddRule(path, access, next, i_next) ==
    IF path \notin present
    THEN IF UnopenablePathIsFatal THEN Fail("PathResolution") ELSE Skip(next, i_next)
    ELSE \/ Fail("AddRule")
         \/ /\ ruleset' = [ruleset EXCEPT !.rules = MergeRule(@, path, access)]
            /\ pc' = next
            /\ i' = i_next
            /\ UNCHANGED <<kernel_abi, HOME, present, writable_roots, status, result,
                           stderr, layers, state, calls, layers_at_entry,
                           stderr_at_entry, commits>>

\* Ruleset::default().handle_access(all_access)?.create()?
Create ==
    /\ pc = "create"
    /\ \/ Fail("PolicyCreation")
       \/ /\ ruleset' = [handled |-> all_access, rules |-> {}]
          /\ pc' = Successor("create")
          /\ UNCHANGED <<kernel_abi, HOME, present, writable_roots, i, status, result,
                         stderr, layers, state, calls, layers_at_entry,
                         stderr_at_entry, commits>>

AddReadRule ==
    /\ pc = "read"
    /\ AddRule(RootDir, read_access, Successor("read"), i)

AddExecRule ==
    /\ pc = "exec"
    /\ AddRule(RootDir, ExecRuleAccess, Successor("exec"), i)

\* One iteration of `for root in writable_roots`.
AddRootRule ==
    /\ pc = "roots"
    /\ i <= Len(writable_roots)
    /\ AddRule(writable_roots[i], all_access, "roots", i + 1)

\* The loop has visited every root.
RootsDone ==
    /\ pc = "roots"
    /\ i > Len(writable_roots)
    /\ Skip(Successor("roots"), i)

AddTmpRule ==
    /\ pc = "tmp"
    /\ AddRule(TmpDir, all_access, Successor("tmp"), i)

AddHomeRule ==
    /\ pc = "home"
    /\ IF HOME = {}
       THEN IF HomeUnsetIsFatal THEN Fail("HomeUnset") ELSE Skip(Successor("home"), i)
       ELSE LET home == CHOOSE h \in HOME : TRUE
                claude_dir == ClaudeDir(home)
            IN  IF claude_dir \notin present
                THEN IF ClaudeMissingIsFatal
                     THEN Fail("PathResolution")
                     ELSE Skip(Successor("home"), i)
                ELSE AddRule(claude_dir, all_access, Successor("home"), i)

\* let status = ruleset.restrict_self()?
Commit ==
    /\ pc = "commit"
    /\ \/ Fail("Commit")
       \/ /\ layers' = IF kernel_abi <= 0 THEN layers
                       ELSE StackLayer(layers, Enforce(ruleset, kernel_abi))
          /\ status' = RulesetStatusOf(kernel_abi)
          /\ state' = "Restricted"
          /\ commits' = commits + 1
          /\ pc' = Successor("commit")
          /\ UNCHANGED <<kernel_abi, HOME, present, writable_roots, i, ruleset, result,
                         stderr, calls, layers_at_entry, stderr_at_entry>>

\* if status.ruleset == RulesetStatus::NotEnforced { eprintln!(..) }  Ok(())
Report ==
    /\ pc = "report"
    /\ stderr' = IF WarnCondition(status) THEN stderr + 1 ELSE stderr
    /\ result' = Ok(ReturnValue(status))
    /\ pc' = "done"
    /\ UNCHANGED <<kernel_abi, HOME, present, writable_roots, i, ruleset, status,
                   layers, state, calls, layers_at_entry, stderr_at_entry, commits>>

\* Control is back with the caller and the locals of the call are dropped; the
\* filesystem may have changed by the next call.
Return ==
    /\ pc = "done"
    /\ pc' = "idle"
    /\ present' \in FsStates
    /\ writable_roots' = <<>>
    /\ i' = 1
    /\ ruleset' = NoRuleset
    /\ status' = "none"
    /\ result' = NoResult
    /\ commits' = 0
    /\ layers_at_entry' = layers
    /\ stderr_at_entry' = stderr
    /\ UNCHANGED <<kernel_abi, HOME, stderr, layers, state, calls>>

Next ==
    \/ Call
    \/ Create
    \/ AddReadRule
    \/ AddExecRule
    \/ AddRootRule
    \/ RootsDone
    \/ AddTmpRule
    \/ AddHomeRule
    \/ Commit
    \/ Report
    \/ Return

Spec == Init /\ [][Next]_vars

\* ---------------------------------------------------------------- properties
WriteCategory == all_access \ {"Execute", "ReadFile", "ReadDir"}

Returned == pc = "done"

Succeeded == pc = "done" /\ result.kind = "ok"

Failed == pc = "done" /\ result.kind = "err"

Roots == {writable_roots[k] : k \in 1..Len(writable_roots)}

\* $HOME/.claude, when HOME is set and the directory exists at the call.
SessionDirs == {ClaudeDir(h) : h \in HOME} \cap present

WritableArea == Roots \cup {TmpDir} \cup SessionDirs

InWritableArea(p) == \E r \in WritableArea : Beneath(p, r)

Warnings == stderr - stderr_at_entry

InterfaceCauses == {"PolicyCreation", "AddRule", "Commit"}

\* Every access permitted under ls2 is permitted under ls1.
NoMorePermissive(ls2, ls1) ==
    \/ ls2 = ls1
    \/ \A p \in ProbePaths, op \in all_access :
          Permitted(ls2, op, p) => Permitted(ls1, op, p)

HasRule(path, access) ==
    \E r \in ruleset.rules : r.path = path /\ access \subseteq r.access

\* C1: after a successful, fully enforced call reads and execution are permitted
\* on every path, and a write-category right is permitted on a path exactly when
\* the path lies beneath a writable root, /tmp or the existing $HOME/.claude (and
\* the process was permitted it before the call, which for an unrestricted
\* process is always); the rules rooted at / carry no write-category right.
C1_WritesConfined ==
    (Succeeded /\ status = "FullyEnforced") =>
        /\ \A p \in ProbePaths, op \in read_access \cup {"Execute"} :
              Permitted(layers, op, p)
        /\ \A p \in ProbePaths, op \in WriteCategory :
              Permitted(layers, op, p) <=>
                  (InWritableArea(p) /\ Permitted(layers_at_entry, op, p))
        /\ \A r \in ruleset.rules :
              r.path = RootDir => r.access \cap WriteCategory = {}

C1_Witness ==
    /\ Succeeded /\ status = "FullyEnforced"
    /\ layers_at_entry = <<>>
    /\ writable_roots = << <<"ws">> >>
    /\ Permitted(layers, "WriteFile", <<"ws", "file.txt">>)
    /\ ~Permitted(layers, "WriteFile", <<"etc", "passwd">>)
    /\ Permitted(layers, "ReadFile", <<"etc", "passwd">>)

\* C2: a call that was given a writable root that cannot be opened, or that finds
\* /tmp unopenable, returns an error; a call that returns success has added the
\* full-access rule of every writable root and of /tmp.
C2_FailClosed ==
    Returned =>
        /\ (\E r \in Roots \cup {TmpDir} : r \notin present) => result.kind = "err"
        /\ result.kind = "ok" =>
              \A r \in Roots \cup {TmpDir} : HasRule(r, all_access)

C2_Witness ==
    /\ Failed /\ result.value = "PathResolution"
    /\ \E r \in Roots : r \notin present
    /\ TmpDir \in present

\* C3: a call whose commit reported NotEnforced returns success and has written
\* exactly one warning line.
C3_NotEnforcedIsSuccess ==
    (Returned /\ status = "NotEnforced") => (result.kind = "ok" /\ Warnings = 1)

C3_Witness == Succeeded /\ status = "NotEnforced" /\ Warnings = 1

C6_WarnsWhenDegraded ==
    Succeeded => (Warnings >= 1 <=> status # "FullyEnforced")

\* C7: a call commits at most once and only a complete ruleset (scope declared,
\* read and execute at /, every writable root, /tmp, the existing $HOME/.claude);
\* a call that failed at ruleset creation or at a rule has not committed, has left
\* the layers as they were and has written no warning.
C7_NoHalfApplied ==
    /\ commits <= 1
    /\ commits = 1 =>
          /\ ruleset.handled = all_access
          /\ HasRule(RootDir, read_access \cup {"Execute"})
          /\ \A r \in WritableArea : HasRule(r, all_access)
    /\ (Failed /\ result.value \in {"PolicyCreation", "PathResolution", "AddRule"}) =>
          /\ commits = 0
          /\ layers = layers_at_entry
          /\ Warnings = 0

C7_Witness ==
    /\ Failed /\ result.value = "PathResolution"
    /\ i > 1
    /\ ruleset.handled = all_access
    /\ layers # <<>>
    /\ layers = layers_at_entry

FailedAtRule ==
    /\ Failed /\ result.value \in {"PathResolution", "AddRule"}
    /\ ruleset.handled = all_access

\* C8 (as claimed): a call that failed at a rule after declaring the scope has
\* left the process with fewer permitted accesses than it had before the call.
C8_FailedCallRestricts ==
    FailedAtRule =>
        \E p \in ProbePaths, op \in all_access :
            Permitted(layers_at_entry, op, p) /\ ~Permitted(layers, op, p)

\* C8 (amended): a call that failed at a rule after declaring the scope has left
\* every access permitted exactly as before the call; the declared scope is not
\* in force.
C8_FailedCallChangesNothing ==
    FailedAtRule =>
        /\ NoMorePermissive(layers, layers_at_entry)
        /\ NoMorePermissive(layers_at_entry, layers)

C8_Witness ==
    /\ FailedAtRule /\ result.value = "PathResolution"
    /\ \E r \in Roots : r \notin present
    /\ layers_at_entry = <<>>
    /\ Permitted(layers, "WriteFile", <<"etc", "passwd">>)

SufficientSupport == kernel_abi >= 1 /\ result.value \notin InterfaceCauses

RootsExist == writable_roots # <<>> /\ Roots \subseteq present

\* C9 (as claimed): with a non-empty list of existing writable roots and
\* sufficient platform support the call succeeds.
C9_ExistingRootsSucceed ==
    (Returned /\ RootsExist /\ SufficientSupport) => result.kind = "ok"

\* C9 (amended): with a non-empty list of existing writable roots, sufficient
\* platform support and an openable /tmp the call succeeds, whatever HOME and
\* $HOME/.claude are.
C9_ExistingRootsAndTmpSucceed ==
    (Returned /\ RootsExist /\ SufficientSupport /\ TmpDir \in present) =>
        result.kind = "ok"

C9_Witness ==
    /\ Succeeded /\ RootsExist /\ kernel_abi >= 1
    /\ HOME = {}

CarveOutSkipped == SessionDirs = {}

\* C10: when HOME is unset or $HOME/.claude does not exist, the call adds no rule
\* for it and writes nothing about it, fails only for a reason of its own (an
\* unopenable root or /tmp, or the kernel interface) and succeeds otherwise, with
\* exactly the rules of /, the writable roots and /tmp; a missing writable root
\* makes the call fail.
C10_OptionalCarveOut ==
    CarveOutSkipped =>
        /\ \A r \in ruleset.rules : r.path \in {RootDir, TmpDir} \cup Roots
        /\ pc = "commit" => stderr = stderr_at_entry
        /\ Failed =>
              \/ result.value \in InterfaceCauses
              \/ /\ result.value = "PathResolution"
                 /\ \E r \in Roots \cup {TmpDir} : r \notin present
        /\ Succeeded =>
              /\ ruleset.rules =
                    {[path |-> RootDir, access |-> read_access \cup {"Execute"}]}
                    \cup {[path |-> r, access |-> all_access] : r \in Roots \cup {TmpDir}}
              /\ Warnings = (IF status = "NotEnforced" THEN 1 ELSE 0)
        /\ (Returned /\ \E r \in Roots : r \notin present) => result.kind = "err"

C10_Witness ==
    /\ Succeeded
    /\ HOME # {}
    /\ CarveOutSkipped
    /\ writable_roots # <<>>

====
